---- MODULE Spec2Model ----
(***************************************************************************)
(* terraform-provider-fwautomation: the resource fwautomation_fwgroup.     *)
(*                                                                         *)
(* src/fwautomation/resource_firewall_group.go holds two sets of           *)
(* declarations of the resource (lines 1-190 and lines 192-353): both      *)
(* declare resourceFirewallGroup, the three CRUD entry points,             *)
(* runResourceFirewallGroupsTask and generateCommand.  One build links one *)
(* of them; `build` says which (1: lines 1-190, 2: lines 192-353).         *)
(* Definitions of the second set carry the suffix _2.                      *)
(*                                                                         *)
(* The environment (key file, SSH server, remote command) is a             *)
(* nondeterministic choice of success or failure at every step.            *)
(***************************************************************************)
EXTENDS Integers, Sequences, FiniteSets, TLC

VARIABLES
    build,      \* which set of declarations is linked: 1 or 2
    d,          \* schema.ResourceData: id and the three fields
    pc,         \* position of the CRUD call in progress, "idle" between calls
    op,         \* entry point in progress or last returned
    method,     \* the method string the entry point passes down
    dBefore,    \* d when the call in progress was entered
    clients,    \* ssh.Client values dialed and not yet closed
    sessions,   \* ssh.Session values opened and not yet closed
    dials,      \* ssh.Dial attempts of the call
    started,    \* session.Start calls of the call that returned nil
    waited,     \* session.Wait of the call returned nil (exit status zero)
    cmd,        \* command string built by generateCommand in this call
    sent,       \* command strings started on the appliance in this call
    steps,      \* steps the call has executed, in order
    diags,      \* diag.Diagnostics of the call
    ret,        \* "none" while running or before any call, "ok", "err"
    lastModify, \* history: method of the last `modify group` command that exited zero
    vfield,     \* validator under test (SpecValidate)
    vinput,     \* string handed to the validator
    verrs       \* number of errors the validator returned, -1 before it ran

vars == <<build, d, pc, op, method, dBefore, clients, sessions, dials, started,
          waited, cmd, sent, steps, diags, ret, lastModify, vfield, vinput, verrs>>

crudVars == <<d, pc, op, method, dBefore, clients, sessions, dials, started,
              waited, cmd, sent, steps, diags, ret, lastModify>>

validateVars == <<vfield, vinput, verrs>>

(***************************************************************************)
(* Bounds                                                                  *)
(***************************************************************************)
\* longest group_name / hostname handed to a validator
MaxLen == 3
\* an ip_address needs three periods and a fourth octet more
MaxIpLen == MaxLen + 4

(***************************************************************************)
(* Strings are sequences of one-character strings.  The alphabet has two   *)
(* representatives of every character class the patterns distinguish.      *)
(***************************************************************************)
UpperCase == {"A", "Z"}
LowerCase == {"a", "z"}
Digit     == {"0", "9"}
Alphabet  == UpperCase \cup LowerCase \cup {"_", ".", "-", "9"}
IpAlphabet == Digit \cup {".", "a"}

RECURSIVE Str(_)
\* the Go string a character sequence stands for
Str(s) == IF s = <<>> THEN "" ELSE Head(s) \o Str(Tail(s))

StringsUpTo(alphabet, n) == UNION {[1..k -> alphabet] : k \in 0..n}

(***************************************************************************)
(* Package regexp.  A pattern is a sequence of items (a character class    *)
(* with a quantifier), with or without the anchors ^ and $.  Without an    *)
(* anchor MatchString looks for a match anywhere in the text.              *)
(***************************************************************************)
AllIn(v, a, b, cls) == \A i \in a..b : v[i] \in cls

\* positions (index of the next unread character) after one item
StepItem(v, P, it) ==
    CASE it.q = "one"  -> {p + 1 : p \in {x \in P : x <= Len(v) /\ v[x] \in it.cls}}
      [] it.q = "plus" -> {e \in 2..(Len(v) + 1) :
                              \E p \in P : p < e /\ AllIn(v, p, e - 1, it.cls)}
      [] it.q = "star" -> {e \in 1..(Len(v) + 1) :
                              \E p \in P : p <= e /\ AllIn(v, p, e - 1, it.cls)}

RECURSIVE RunItems(_, _, _, _)
RunItems(v, P, items, k) ==
    IF k > Len(items) THEN P
    ELSE RunItems(v, StepItem(v, P, items[k]), items, k + 1)

MatchString(re, v) ==
    LET P0   == IF re.bol THEN {1} ELSE 1..(Len(v) + 1)
        ends == RunItems(v, P0, re.items, 1)
    IN  \E e \in ends : re.eol => e = Len(v) + 1

Item(cls, q) == [cls |-> cls, q |-> q]

\* `^[A-Z_]+$`
GroupNamePattern ==
    [bol |-> TRUE, eol |-> TRUE, items |-> <<Item(UpperCase \cup {"_"}, "plus")>>]
\* `^[a-z\.-]+$`
HostnamePattern ==
    [bol |-> TRUE, eol |-> TRUE, items |-> <<Item(LowerCase \cup {".", "-"}, "plus")>>]
\* `^\d+\.\d+\.\d+\.\d+$`
IpAddressPattern ==
    [bol |-> TRUE, eol |-> TRUE,
     items |-> <<Item(Digit, "plus"), Item({"."}, "one"),
                 Item(Digit, "plus"), Item({"."}, "one"),
                 Item(Digit, "plus"), Item({"."}, "one"),
                 Item(Digit, "plus")>>]

\* "[A-Z_]*"
GroupNamePattern_2 ==
    [bol |-> FALSE, eol |-> FALSE, items |-> <<Item(UpperCase \cup {"_"}, "star")>>]
\* "[a-z\\.-]*"
HostnamePattern_2 ==
    [bol |-> FALSE, eol |-> FALSE, items |-> <<Item(LowerCase \cup {".", "-"}, "star")>>]
\* "[0-9]+\\.[0-9]+\\.[0-9]+\\.[0-9]+"
IpAddressPattern_2 ==
    [bol |-> FALSE, eol |-> FALSE,
     items |-> <<Item(Digit, "plus"), Item({"."}, "one"),
                 Item(Digit, "plus"), Item({"."}, "one"),
                 Item(Digit, "plus"), Item({"."}, "one"),
                 Item(Digit, "plus")>>]

(***************************************************************************)
(* ValidateFunc of the three schema fields: the number of errors returned. *)
(***************************************************************************)
ValidateGroupName(v) == IF ~MatchString(GroupNamePattern, v) THEN 1 ELSE 0
ValidateHostname(v)  == IF ~MatchString(HostnamePattern, v) THEN 1 ELSE 0
ValidateIpAddress(v) == IF ~MatchString(IpAddressPattern, v) THEN 1 ELSE 0

ValidateGroupName_2(v) == IF ~MatchString(GroupNamePattern_2, v) THEN 1 ELSE 0
ValidateHostname_2(v)  == IF ~MatchString(HostnamePattern_2, v) THEN 1 ELSE 0
ValidateIpAddress_2(v) == IF ~MatchString(IpAddressPattern_2, v) THEN 1 ELSE 0

\* the validators of the linked resourceFirewallGroup
ValidateField(b, field, v) ==
    CASE field = "group_name" -> IF b = 1 THEN ValidateGroupName(v) ELSE ValidateGroupName_2(v)
      [] field = "hostname"   -> IF b = 1 THEN ValidateHostname(v) ELSE ValidateHostname_2(v)
      [] field = "ip_address" -> IF b = 1 THEN ValidateIpAddress(v) ELSE ValidateIpAddress_2(v)

(***************************************************************************)
(* The resource instance.  Its fields reached ResourceData through the     *)
(* schema, so they passed the linked validators.                           *)
(***************************************************************************)
GroupNameInputs == {<<"A", "_", "Z">>, <<"Z">>, <<"a">>}
HostnameInputs  == {<<"a", ".", "z">>, <<"A">>}
IpAddressInputs == {<<"9", ".", "0", ".", "0", ".", "9">>,
                    <<"a", "9", ".", "0", ".", "0", ".", "9">>}

Accepted(b, field, inputs) == {Str(v) : v \in {x \in inputs : ValidateField(b, field, x) = 0}}

\* uuid.NewString(): some non-empty string, not derived from any field
NewString == {"uuid-1", "uuid-2"}

\* createUniqueId() is declared in no file at hand; by the data model the
\* identity is a randomly generated opaque non-empty identifier
createUniqueId == {"uid-1", "uid-2"}

Diag(context) == [context |-> context]

(***************************************************************************)
(* generateCommand, first declaration (lines 178-190)                      *)
(***************************************************************************)
generateCommand(dd, m) ==
    IF m = "add" \/ m = "remove"
    THEN [cmd |-> "modify group group=" \o dd.group_name \o " hostname=" \o dd.hostname
                  \o " ip=" \o dd.ip_address \o " method=" \o m,
          err |-> FALSE]
    ELSE IF m = "read"
    THEN [cmd |-> "show group group=" \o dd.group_name, err |-> FALSE]
    ELSE [cmd |-> "", err |-> TRUE]

(***************************************************************************)
(* generateCommand and getFirewallGroups, second declaration               *)
(***************************************************************************)
generateCommand_2(dd, m) == [cmd |-> "", err |-> FALSE]

getFirewallGroups(dd) == [groups |-> <<>>, err |-> FALSE]

(***************************************************************************)
(* The appliance's side of the protocol: which `modify group` command of   *)
(* this resource a command string is, and the history of the last one that *)
(* exited with status zero.                                                *)
(***************************************************************************)
ModifyGroup(dd, m) ==
    "modify group group=" \o dd.group_name \o " hostname=" \o dd.hostname
        \o " ip=" \o dd.ip_address \o " method=" \o m
ShowGroup(dd) == "show group group=" \o dd.group_name

Completed(last, c, dd) ==
    IF c = ModifyGroup(dd, "add") THEN "add"
    ELSE IF c = ModifyGroup(dd, "remove") THEN "remove"
    ELSE last

(***************************************************************************)
(* Deferred calls, run when the function that registered them returns.     *)
(***************************************************************************)
\* the deferred client.Close() left out: the client stays open
LeakClientClose == UNCHANGED clients

\* defer client.Close()
DeferClientClose == clients' = 0
\* defer session.Close()
DeferSessionClose == sessions' = 0

(***************************************************************************)
(* Entering a CRUD call: the framework hands the entry point the resource  *)
(* data; the call's own bookkeeping starts empty.  The framework calls     *)
(* Create for a resource that has no id yet, Read and Delete for a         *)
(* resource it tracks (one with an id), and one call at a time.            *)
(***************************************************************************)
Enter(o, m) ==
    /\ pc = "idle"
    /\ pc' = "readkey"
    /\ op' = o
    /\ method' = m
    /\ dBefore' = d
    /\ dials' = 0
    /\ started' = 0
    /\ waited' = FALSE
    /\ cmd' = ""
    /\ sent' = <<>>
    /\ steps' = <<>>
    /\ diags' = <<>>
    /\ ret' = "none"
    /\ UNCHANGED <<build, d, clients, sessions, lastModify, validateVars>>

\* return diag.FromErr(err): the call ends with one more diagnostic
ReturnErr(step, context) ==
    /\ pc' = "idle"
    /\ ret' = "err"
    /\ diags' = Append(diags, Diag(context))
    /\ steps' = Append(steps, step)
    /\ UNCHANGED <<build, d, op, method, dBefore, validateVars>>

\* the step succeeded and the call goes on at `next`
Proceed(step, next) ==
    /\ pc' = next
    /\ steps' = Append(steps, step)
    /\ UNCHANGED <<build, d, op, method, dBefore, diags, ret, validateVars>>

(***************************************************************************)
(* First declaration: lines 66-176                                         *)
(***************************************************************************)
resourceFirewallGroupCreate == build = 1 /\ d.id = "" /\ Enter("create", "add")
resourceFirewallGroupRead   == build = 1 /\ d.id # "" /\ Enter("read", "read")
resourceFirewallGroupDelete == build = 1 /\ d.id # "" /\ Enter("delete", "remove")

\* setupSSHConnection: ioutil.ReadFile(config.AuthenticationKeyPath)
ReadFile ==
    /\ build = 1 /\ pc = "readkey"
    /\ \E ok \in BOOLEAN :
          IF ok THEN Proceed("readkey", "parsekey")
                ELSE ReturnErr("readkey", "failed to load private key")
    /\ UNCHANGED <<clients, sessions, dials, started, waited, cmd, sent, lastModify>>

\* setupSSHConnection: ssh.ParsePrivateKey(key)
ParsePrivateKey ==
    /\ build = 1 /\ pc = "parsekey"
    /\ \E ok \in BOOLEAN :
          IF ok THEN Proceed("parsekey", "dial")
                ELSE ReturnErr("parsekey", "failed to parse private key")
    /\ UNCHANGED <<clients, sessions, dials, started, waited, cmd, sent, lastModify>>

\* setupSSHConnection: return ssh.Dial(...); the error goes back as it is
Dial ==
    /\ build = 1 /\ pc = "dial"
    /\ dials' = dials + 1
    /\ \E ok \in BOOLEAN :
          IF ok THEN Proceed("dial", "session") /\ clients' = clients + 1
                ELSE ReturnErr("dial", "") /\ UNCHANGED clients
    /\ UNCHANGED <<sessions, started, waited, cmd, sent, lastModify>>

\* the session started before any command was generated
NewSessionSkipBuild ==
    /\ build = 1 /\ pc = "session"
    /\ \E ok \in BOOLEAN :
          IF ok THEN Proceed("session", "start") /\ sessions' = sessions + 1
                     /\ UNCHANGED clients
                ELSE ReturnErr("session", "error creating SSH session")
                     /\ clients' = 0 /\ UNCHANGED sessions
    /\ UNCHANGED <<dials, started, waited, cmd, sent, lastModify>>

\* runResourceFirewallGroupsTask: client.NewSession()
NewSession ==
    /\ build = 1 /\ pc = "session"
    /\ \E ok \in BOOLEAN :
          IF ok THEN Proceed("session", "build") /\ sessions' = sessions + 1
                     /\ UNCHANGED clients
                ELSE ReturnErr("session", "error creating SSH session")
                     /\ DeferClientClose /\ UNCHANGED sessions
    /\ UNCHANGED <<dials, started, waited, cmd, sent, lastModify>>

\* runResourceFirewallGroupsTask: cmd, err := generateCommand(d, method)
BuildCommand ==
    /\ build = 1 /\ pc = "build"
    /\ LET g == generateCommand(d, method)
       IN  IF g.err
           THEN ReturnErr("build", "error executing command")
                /\ DeferSessionClose /\ DeferClientClose /\ UNCHANGED cmd
           ELSE Proceed("build", "start") /\ cmd' = g.cmd
                /\ UNCHANGED <<clients, sessions>>
    /\ UNCHANGED <<dials, started, waited, sent, lastModify>>

\* runResourceFirewallGroupsTask: session.Start(cmd)
SessionStart ==
    /\ build = 1 /\ pc = "start"
    /\ \E ok \in BOOLEAN :
          IF ok THEN Proceed("start", "wait")
                     /\ started' = started + 1 /\ sent' = Append(sent, cmd)
                     /\ UNCHANGED <<clients, sessions>>
                ELSE ReturnErr("start", "error starting command")
                     /\ DeferSessionClose /\ DeferClientClose
                     /\ UNCHANGED <<started, sent>>
    /\ UNCHANGED <<dials, waited, cmd, lastModify>>

\* runResourceFirewallGroupsTask: session.Wait(), then return nil
SessionWait ==
    /\ build = 1 /\ pc = "wait"
    /\ \E ok \in BOOLEAN :
          IF ok THEN Proceed("wait", "finish") /\ waited' = TRUE
                     /\ lastModify' = Completed(lastModify, cmd, d)
                     /\ DeferSessionClose /\ UNCHANGED clients
                ELSE ReturnErr("wait", "error waiting for command completion")
                     /\ DeferSessionClose /\ DeferClientClose
                     /\ UNCHANGED <<waited, lastModify>>
    /\ UNCHANGED <<dials, started, cmd, sent>>

\* the entry point got nil from runResourceFirewallGroupsTask
ReturnOk ==
    /\ pc = "finish"
    /\ pc' = "idle"
    /\ ret' = "ok"
    /\ DeferClientClose
    /\ UNCHANGED <<build, op, method, dBefore, sessions, dials, started, waited,
                   cmd, sent, steps, diags, lastModify, validateVars>>

\* resourceFirewallGroupCreate: d.SetId(uuid.NewString()); return diags
CreateSetId ==
    /\ build = 1 /\ op = "create"
    /\ ReturnOk
    /\ \E u \in NewString : d' = [d EXCEPT !.id = u]

\* resourceFirewallGroupRead: return diags
ReadReturn ==
    /\ build = 1 /\ op = "read"
    /\ ReturnOk
    /\ UNCHANGED d

\* resourceFirewallGroupDelete: d.SetId(""); return diags
DeleteSetId ==
    /\ build = 1 /\ op = "delete"
    /\ ReturnOk
    /\ d' = [d EXCEPT !.id = ""]

(***************************************************************************)
(* Second declaration: lines 253-348                                       *)
(***************************************************************************)
resourceFirewallGroupCreate_2 == build = 2 /\ d.id = "" /\ Enter("create", "add")
resourceFirewallGroupRead_2   == build = 2 /\ d.id # "" /\ Enter("read", "read")
resourceFirewallGroupDelete_2 == build = 2 /\ d.id # "" /\ Enter("delete", "delete")

\* manageFirewallGroup: ioutil.ReadFile(d.Get("authentication_key_path").(string)).
\* The path is looked up in the resource data, whose schema (lines 212-249)
\* declares no such key; what the lookup yields is the framework's matter,
\* and the read is taken to succeed or to fail like any file read.
ReadFile_2 ==
    /\ build = 2 /\ pc = "readkey"
    /\ \E ok \in BOOLEAN :
          IF ok THEN Proceed("readkey", "parsekey")
                ELSE ReturnErr("readkey", "failed to load private key")
    /\ UNCHANGED <<clients, sessions, dials, started, waited, cmd, sent, lastModify>>

\* manageFirewallGroup: ssh.ParsePrivateKey(key)
ParsePrivateKey_2 ==
    /\ build = 2 /\ pc = "parsekey"
    /\ \E ok \in BOOLEAN :
          IF ok THEN Proceed("parsekey", "groups")
                ELSE ReturnErr("parsekey", "failed to parse private key")
    /\ UNCHANGED <<clients, sessions, dials, started, waited, cmd, sent, lastModify>>

\* manageFirewallGroup: firewallGroups, err := getFirewallGroups(d)
GetFirewallGroups_2 ==
    /\ build = 2 /\ pc = "groups"
    /\ IF getFirewallGroups(d).err
       THEN ReturnErr("groups", "")
       ELSE Proceed("groups", "loop")
    /\ UNCHANGED <<clients, sessions, dials, started, waited, cmd, sent, lastModify>>

\* what the environment does to one group's connection and command
GroupOutcomes == {"dial_fail", "session_fail", "start_fail", "wait_fail", "ok"}

\* runResourceFirewallGroupsTask(sshClient, d, method, group), its session
\* closed on return: the steps taken, the commands started, the error
runResourceFirewallGroupsTask_2(dd, m, out) ==
    LET g == generateCommand_2(dd, m)
    IN  IF out = "session_fail"
        THEN [steps |-> <<"session">>, sent |-> <<>>, waited |-> FALSE,
              err |-> "Error creating SSH session"]
        ELSE IF g.err
        THEN [steps |-> <<"session", "build">>, sent |-> <<>>, waited |-> FALSE,
              err |-> "Error executing GenerateCommand"]
        ELSE IF out = "start_fail"
        THEN [steps |-> <<"session", "build", "start">>, sent |-> <<>>, waited |-> FALSE,
              err |-> "Error running start command"]
        ELSE IF out = "wait_fail"
        THEN [steps |-> <<"session", "build", "start", "wait">>, sent |-> <<g.cmd>>,
              waited |-> FALSE, err |-> "Error running wait command"]
        ELSE [steps |-> <<"session", "build", "start", "wait">>, sent |-> <<g.cmd>>,
              waited |-> TRUE, err |-> ""]

\* one iteration of `for _, group := range firewallGroups`
GroupBody(dd, m, out, acc) ==
    IF out = "dial_fail"
    THEN [acc EXCEPT !.dials = @ + 1,
                     !.steps = Append(@, "dial"),
                     !.diags = Append(@, Diag("failed to connect for group"))]
    ELSE LET r == runResourceFirewallGroupsTask_2(dd, m, out)
         IN  [acc EXCEPT !.dials = @ + 1,
                         !.clients = @ + 1,
                         !.steps = Append(@, "dial") \o r.steps,
                         !.sent = @ \o r.sent,
                         !.started = @ + Len(r.sent),
                         !.waited = r.waited,
                         !.lastModify = IF r.waited THEN Completed(@, r.sent[1], dd) ELSE @,
                         !.diags = IF r.err = "" THEN @
                                   ELSE Append(@, Diag("error processing group"))]

RECURSIVE LoopGroups(_, _, _, _, _)
LoopGroups(dd, m, outs, i, acc) ==
    IF i > Len(outs) THEN acc
    ELSE LoopGroups(dd, m, outs, i + 1, GroupBody(dd, m, outs[i], acc))

\* manageFirewallGroup: the loop over firewallGroups
ForEachGroup_2 ==
    /\ build = 2 /\ pc = "loop"
    /\ LET groups == getFirewallGroups(d).groups
       IN  \E outs \in [1..Len(groups) -> GroupOutcomes] :
              LET acc == LoopGroups(d, method, outs, 1,
                            [dials |-> dials, clients |-> clients, steps |-> steps,
                             sent |-> sent, started |-> started, waited |-> waited,
                             diags |-> diags, lastModify |-> lastModify])
              IN  /\ dials' = acc.dials
                  /\ clients' = acc.clients
                  /\ steps' = acc.steps
                  /\ sent' = acc.sent
                  /\ started' = acc.started
                  /\ waited' = acc.waited
                  /\ diags' = acc.diags
                  /\ lastModify' = acc.lastModify
    /\ pc' = "finish"
    /\ UNCHANGED <<build, d, op, method, dBefore, sessions, cmd, ret, validateVars>>

\* manageFirewallGroup: if len(diags) == 0 { d.SetId(createUniqueId()) }; return diags
SetIdAndReturn_2 ==
    /\ build = 2 /\ pc = "finish"
    /\ pc' = "idle"
    /\ DeferClientClose
    /\ IF Len(diags) = 0
       THEN /\ \E u \in createUniqueId : d' = [d EXCEPT !.id = u]
            /\ ret' = "ok"
       ELSE /\ ret' = "err"
            /\ UNCHANGED d
    /\ UNCHANGED <<build, op, method, dBefore, sessions, dials, started, waited,
                   cmd, sent, steps, diags, lastModify, validateVars>>

(***************************************************************************)
(* The resource's life: any sequence of CRUD calls, one at a time.         *)
(***************************************************************************)
Init ==
    /\ build \in {1, 2}
    /\ d \in [id : {""},
              group_name : Accepted(build, "group_name", GroupNameInputs),
              hostname   : Accepted(build, "hostname", HostnameInputs),
              ip_address : Accepted(build, "ip_address", IpAddressInputs)]
    /\ pc = "idle"
    /\ op = "none"
    /\ method = ""
    /\ dBefore = d
    /\ clients = 0
    /\ sessions = 0
    /\ dials = 0
    /\ started = 0
    /\ waited = FALSE
    /\ cmd = ""
    /\ sent = <<>>
    /\ steps = <<>>
    /\ diags = <<>>
    /\ ret = "none"
    /\ lastModify = "none"
    /\ vfield = "none"
    /\ vinput = <<>>
    /\ verrs = -1

Next ==
    \/ resourceFirewallGroupCreate
    \/ resourceFirewallGroupRead
    \/ resourceFirewallGroupDelete
    \/ ReadFile
    \/ ParsePrivateKey
    \/ Dial
    \/ NewSession
    \/ BuildCommand
    \/ SessionStart
    \/ SessionWait
    \/ CreateSetId
    \/ ReadReturn
    \/ DeleteSetId
    \/ resourceFirewallGroupCreate_2
    \/ resourceFirewallGroupRead_2
    \/ resourceFirewallGroupDelete_2
    \/ ReadFile_2
    \/ ParsePrivateKey_2
    \/ GetFirewallGroups_2
    \/ ForEachGroup_2
    \/ SetIdAndReturn_2

Spec == Init /\ [][Next]_vars

(***************************************************************************)
(* The validators alone: the schema hands a ValidateFunc any string.       *)
(***************************************************************************)
FieldInputs(field) ==
    IF field = "ip_address" THEN StringsUpTo(IpAlphabet, MaxIpLen)
                            ELSE StringsUpTo(Alphabet, MaxLen)

InitValidate ==
    /\ build \in {1, 2}
    /\ d = [id |-> "", group_name |-> "", hostname |-> "", ip_address |-> ""]
    /\ pc = "idle"
    /\ op = "none"
    /\ method = ""
    /\ dBefore = d
    /\ clients = 0
    /\ sessions = 0
    /\ dials = 0
    /\ started = 0
    /\ waited = FALSE
    /\ cmd = ""
    /\ sent = <<>>
    /\ steps = <<>>
    /\ diags = <<>>
    /\ ret = "none"
    /\ lastModify = "none"
    /\ vfield \in {"group_name", "hostname", "ip_address"}
    /\ vinput \in FieldInputs(vfield)
    /\ verrs = -1

RunValidateFunc(field) ==
    /\ vfield = field
    /\ verrs = -1
    /\ verrs' = ValidateField(build, field, vinput)
    /\ UNCHANGED <<build, crudVars, vfield, vinput>>

ValidateGroupNameField == RunValidateFunc("group_name")
ValidateHostnameField  == RunValidateFunc("hostname")
ValidateIpAddressField == RunValidateFunc("ip_address")

NextValidate ==
    \/ ValidateGroupNameField
    \/ ValidateHostnameField
    \/ ValidateIpAddressField

SpecValidate == InitValidate /\ [][NextValidate]_vars

(***************************************************************************)
(* Properties                                                              *)
(***************************************************************************)
Returned == pc = "idle" /\ ret # "none"

StepBefore(earlier, i) == \E j \in 1..(i - 1) : steps[j] = earlier

\* what the schema documents of each field, stated on the string itself
ConformingGroupName(v) ==
    Len(v) > 0 /\ \A i \in 1..Len(v) : v[i] \in UpperCase \/ v[i] = "_"
ConformingHostname(v) ==
    Len(v) > 0 /\ \A i \in 1..Len(v) : v[i] \in LowerCase \/ v[i] = "." \/ v[i] = "-"
ConformingIpAddress(v) ==
    \E i, j, k \in 1..Len(v) :
        /\ 1 < i /\ i + 1 < j /\ j + 1 < k /\ k < Len(v)
        /\ \A n \in 1..Len(v) : IF n \in {i, j, k} THEN v[n] = "." ELSE v[n] \in Digit
Conforming(field, v) ==
    CASE field = "group_name" -> ConformingGroupName(v)
      [] field = "hostname"   -> ConformingHostname(v)
      [] field = "ip_address" -> ConformingIpAddress(v)

\* C1: each field validator returns no error for a conforming string and an
\* error for every other string (group_name: non-empty, uppercase letters and
\* underscores; hostname: non-empty, lowercase letters, periods, hyphens;
\* ip_address: four runs of digits separated by three periods).
C1_ValidatorsAcceptExactlyConforming ==
    verrs # -1 => (verrs = 0 <=> Conforming(vfield, vinput))

\* the command the protocol fixes for an entry point
ExpectedCommand(o, dd) ==
    CASE o = "create" -> ModifyGroup(dd, "add")
      [] o = "delete" -> ModifyGroup(dd, "remove")
      [] o = "read"   -> ShowGroup(dd)
      [] OTHER        -> "none"

\* C2: every command a call starts is the one its operation and the fields
\* fix (Create: modify group ... method=add, Delete: ... method=remove,
\* Read: show group group=<group_name>), and a call that returns without
\* diagnostics has issued exactly that command.
C2_CommandFixedByOperation ==
    /\ \A i \in 1..Len(sent) : sent[i] = ExpectedCommand(op, dBefore)
    /\ (Returned /\ ret = "ok") => sent = <<ExpectedCommand(op, dBefore)>>

\* C3: when Create returns, the id is non-empty exactly if the connection was
\* dialed and the method=add command was started and exited zero; a failed
\* Create leaves the id unset and returns diagnostics.
C3_CreateIdIffSucceeded ==
    (Returned /\ op = "create") =>
        /\ d.id # "" <=> (dials >= 1 /\ sent = <<ModifyGroup(dBefore, "add")>> /\ waited)
        /\ ret = "err" => (d.id = "" /\ Len(diags) > 0)

\* C4: when Delete returns without diagnostics the id is the empty string;
\* when it returns diagnostics the id is the one it had before the call.
C4_DeleteClearsIdOnlyOnSuccess ==
    (Returned /\ op = "delete") =>
        /\ ret = "ok" => (d.id = "" /\ Len(diags) = 0)
        /\ ret = "err" => (d.id = dBefore.id /\ Len(diags) > 0)

\* C5: a call that failed returns a non-empty list of diagnostics, each
\* wrapped with a context message, stopped at the failing step (no command
\* started after it, none at all for an unsupported method), and a call that
\* returns success has no diagnostics.
C5_FailuresWrappedAndFinal ==
    /\ (Returned /\ ret = "err") =>
           /\ Len(diags) > 0
           /\ \A i \in 1..Len(diags) : diags[i].context # ""
    /\ (Returned /\ ret = "ok") => Len(diags) = 0
    /\ Len(diags) > 0 => pc \in {"idle", "loop", "finish"}
    /\ method \notin {"", "add", "remove", "read"} => sent = <<>>

\* C6 as stated: the command string is built before the connection is dialed.
C6_BuildBeforeDial ==
    \A i \in 1..Len(steps) : steps[i] = "dial" => StepBefore("build", i)

\* C6 as the code orders the steps: the connection is dialed before the
\* command string is built, the command is built before it is started, and
\* the exit status is awaited only after the start; the connection is open
\* while the command is built, started and awaited.
C6_DialBuildStartWait ==
    /\ \A i \in 1..Len(steps) :
          /\ steps[i] = "build" => StepBefore("dial", i)
          /\ steps[i] = "start" => StepBefore("build", i)
          /\ steps[i] = "wait"  => StepBefore("start", i)
    /\ pc \in {"build", "start", "wait"} => clients >= 1
    /\ Len(sent) > 0 => sent[Len(sent)] = cmd

C6_Witness ==
    /\ Returned /\ ret = "ok"
    /\ steps = <<"readkey", "parsekey", "dial", "session", "build", "start", "wait">>

\* C7: between calls no SSH client and no session is open: whatever step a
\* call ended at, it closed the client and the session it opened, and the
\* next call starts with none.
C7_NothingOpenBetweenCalls ==
    pc = "idle" => (clients = 0 /\ sessions = 0)

\* a call that failed at Wait, after it had a client and a session open
C7_Witness ==
    Returned /\ ret = "err" /\ dials = 1 /\ Len(sent) = 1 /\ clients = 0 /\ sessions = 0

\* C8: a call dials at most once and starts at most one command, and a call
\* that returns success has dialed once and started exactly one command.
C8_OneDialOneCommand ==
    /\ dials <= 1
    /\ started <= 1
    /\ (Returned /\ ret = "ok") => (dials = 1 /\ started = 1)

\* C9: Read leaves the id and the three fields as they were before the call,
\* whether it succeeds or fails.
C9_ReadChangesNothing ==
    (Returned /\ op = "read") => d = dBefore

\* C10: between calls the id is non-empty exactly if the last `modify group`
\* command of the instance that exited zero was method=add.
C10_IdTracksLastModify ==
    pc = "idle" => (d.id # "" <=> lastModify = "add")

====
